---- MODULE Spec2Model ----
(***************************************************************************)
(* Model of oddt/interactions.py: the all-pairs proximity join             *)
(* (close_contacts), the angular strictness classifier (_check_angles)     *)
(* and the interaction detectors composed from them.                       *)
(*                                                                         *)
(* The module is stateless, so the state machine is one call: Init draws   *)
(* a function name and its arguments, the function's action computes the   *)
(* return value into ret.                                                  *)
(*                                                                         *)
(* Numbers.  Coordinates, cutoffs, tolerances and measured angles are      *)
(* integers (length units, degrees).  The ideal angle 109.5 is not, so     *)
(* BASE_ANGLES is kept in half-degrees and every band comparison is made   *)
(* on doubled values.  A float that may be not-a-number is a record        *)
(* [nan, deg]; every comparison with a NaN is FALSE, as in IEEE-754.       *)
(***************************************************************************)
EXTENDS Integers, Sequences, FiniteSets, TLC

VARIABLES fn, mol1, mol2, x, y, cutoff, cutoff_low, tolerance,
          angles, hybridizations, pc, ret

vars == <<fn, mol1, mol2, x, y, cutoff, cutoff_low, tolerance,
          angles, hybridizations, pc, ret>>

(***************************************************************************)
(* Bounds of the model.                                                    *)
(***************************************************************************)
MaxLen == 4       \* rows of x and y together in a direct close_contacts call
MaxAtoms == 3     \* atoms (atoms and rings) of the two structures together
MaxRings == 4     \* rings of the two structures together
MaxPairs == 2     \* rows of the angle matrix given to _check_angles
MaxSlots == 2     \* neighbor slots (columns) of that matrix

Coords == {0, 1, 3}
Cutoffs == {2, 3}
CutoffLows == {0, 1}
Tolerances == {0, 30, 60}
RingCutoffs == {3}
RingTolerances == {30, 45, 60}

(***************************************************************************)
(* Floats and points.                                                      *)
(***************************************************************************)
NaN == [nan |-> TRUE, deg |-> 0]
Deg(d) == [nan |-> FALSE, deg |-> d]

NaNPoint == [nan |-> TRUE, x |-> 0, y |-> 0]
Pt(px, py) == [nan |-> FALSE, x |-> px, y |-> py]

Abs(n) == IF n < 0 THEN -n ELSE n

\* p + q and p - q on points; a NaN coordinate propagates
vadd(p, q) == IF p.nan \/ q.nan THEN NaNPoint ELSE Pt(p.x + q.x, p.y + q.y)
vsub(p, q) == IF p.nan \/ q.nan THEN NaNPoint ELSE Pt(p.x - q.x, p.y - q.y)

\* numpy: a[column] of a structured array, one entry per row
Column(a, column) == [i \in 1 .. Len(a) |-> a[i][column]]

\* numpy: a[index] with an integer index array
Take(a, index) == [k \in 1 .. Len(index) |-> a[index[k]]]

(***************************************************************************)
(* oddt.spatial: distance, angle_2v, angle.  Exact on the model's inputs   *)
(* (euclidean distances that are whole numbers, angles that are multiples  *)
(* of 45 degrees); any other input has no value here.                      *)
(***************************************************************************)
dist(p, q) ==
    LET dx == p.x - q.x
        dy == p.y - q.y
        sq == dx * dx + dy * dy
    IN  CHOOSE d \in 0 .. sq : d * d = sq

\* the distance matrix d[i][j] of two coordinate arrays
distance(xs, ys) ==
    [i \in 1 .. Len(xs) |-> [j \in 1 .. Len(ys) |-> dist(xs[i], ys[j])]]

angle_2v(v1, v2) ==
    IF v1.nan \/ v2.nan \/ (v1.x = 0 /\ v1.y = 0) \/ (v2.x = 0 /\ v2.y = 0)
    THEN NaN
    ELSE LET dot == v1.x * v2.x + v1.y * v2.y
             cross == v1.x * v2.y - v1.y * v2.x
         IN  CASE cross = 0 /\ dot > 0 -> Deg(0)
               [] cross = 0 /\ dot < 0 -> Deg(180)
               [] dot = 0 /\ cross # 0 -> Deg(90)
               [] dot > 0 /\ Abs(cross) = dot -> Deg(45)
               [] dot < 0 /\ Abs(cross) = -dot -> Deg(135)

\* the angle at p2 between the rays to p1 and to p3
angle(p1, p2, p3) == angle_2v(vsub(p1, p2), vsub(p3, p2))

(***************************************************************************)
(* close_contacts                                                          *)
(***************************************************************************)
\* one cell of the mask (d > cutoff_low) & (d <= cutoff)
InWindow_lowincl(dv, lo, hi) == dv >= lo /\ dv <= hi

InWindow(dv, lo, hi) == dv > lo /\ dv <= hi

\* np.argwhere: the <<i, j>> of the TRUE cells of a mask, in row-major order
argwhere_colmajor(mask) ==
    LET nrows == Len(mask)
        ncols == IF nrows = 0 THEN 0 ELSE Len(mask[1])
        cell(p) == <<((p - 1) % nrows) + 1, ((p - 1) \div nrows) + 1>>
        cells == [p \in 1 .. (nrows * ncols) |-> cell(p)]
        set(c) == mask[c[1]][c[2]]
    IN  SelectSeq(cells, set)

argwhere(mask) ==
    LET nrows == Len(mask)
        ncols == IF nrows = 0 THEN 0 ELSE Len(mask[1])
        cell(p) == <<((p - 1) \div ncols) + 1, ((p - 1) % ncols) + 1>>
        cells == [p \in 1 .. (nrows * ncols) |-> cell(p)]
        set(c) == mask[c[1]][c[2]]
    IN  SelectSeq(cells, set)

close_contacts_noslice(xa, ya, hi, x_column, y_column, lo) ==
    IF Len(Column(xa, x_column)) > 0 /\ Len(Column(xa, x_column)) > 0
    THEN LET d == distance(Column(xa, x_column), Column(ya, y_column))
             mask == [i \in 1 .. Len(d) |->
                         [j \in 1 .. Len(d[i]) |-> InWindow(d[i][j], lo, hi)]]
             index == argwhere(mask)
         IN  <<Take(xa, Column(index, 1)), Take(ya, Column(index, 2))>>
    ELSE <<xa, ya>>

\* the guard tests the first collection twice, as the source does
close_contacts(xa, ya, hi, x_column, y_column, lo) ==
    IF Len(Column(xa, x_column)) > 0 /\ Len(Column(xa, x_column)) > 0
    THEN LET d == distance(Column(xa, x_column), Column(ya, y_column))
             mask == [i \in 1 .. Len(d) |->
                         [j \in 1 .. Len(d[i]) |-> InWindow(d[i][j], lo, hi)]]
             index == argwhere(mask)
         IN  <<Take(xa, Column(index, 1)), Take(ya, Column(index, 2))>>
    ELSE <<<< >>, << >>>>

(***************************************************************************)
(* _check_angles                                                           *)
(***************************************************************************)
\* ideal angles by hybridization code 0..4, in half-degrees:
\* 0, 180, 120, 109.5, 90
BASE_ANGLES == <<0, 360, 240, 219, 180>>

\* np.nan_to_num on one float: NaN becomes 0.0
nan_to_num(a) == IF a.nan THEN 0 ELSE a.deg

\* one cell of (angles > lower_bound) & (angles < upper_bound); a is in
\* degrees, the bounds in half-degrees
InBand_gtupper(a, lower, upper) == 2 * a > lower /\ 2 * a > upper

InBand(a, lower, upper) == 2 * a > lower /\ 2 * a < upper

_check_angles(angs, hybs, tol) ==
    LET num == [i \in 1 .. Len(angs) |->
                   [k \in 1 .. Len(angs[i]) |-> nan_to_num(angs[i][k])]]
        ideal_angles == [i \in 1 .. Len(hybs) |-> BASE_ANGLES[hybs[i] + 1]]
        lower_bound == [i \in 1 .. Len(hybs) |-> ideal_angles[i] - 2 * tol]
        upper_bound == [i \in 1 .. Len(hybs) |-> ideal_angles[i] + 2 * tol]
    IN  [i \in 1 .. Len(angs) |->
            \E k \in 1 .. Len(num[i]) :
                InBand(num[i][k], lower_bound[i], upper_bound[i])]

(***************************************************************************)
(* Detectors                                                               *)
(***************************************************************************)
\* numpy: a[a[flag]], the rows whose boolean column is set, in order
Select(a, flag) == LET set(r) == r[flag] IN SelectSeq(a, set)

\* angle(o['coords'][:, np.newaxis, :], v['coords'][:, np.newaxis, :],
\*       v['neighbors']): for pair i, the angle at v[i] between o[i] and each
\* neighbor slot of v[i]
neighbor_angles(o, v) ==
    [i \in 1 .. Len(v) |->
        [k \in 1 .. Len(v[i].neighbors) |->
            angle(o[i].coords, v[i].coords, v[i].neighbors[k])]]

\* elementwise & of the two directional checks
strict_or(c1, c2) == [i \in 1 .. Len(c1) |-> c1[i] \/ c2[i]]

strict_and(c1, c2) == [i \in 1 .. Len(c1) |-> c1[i] /\ c2[i]]

hbond_acceptor_donor(m1, m2, hi, tol) ==
    LET cc == close_contacts(Select(m1.atom_dict, "isacceptor"),
                             Select(m2.atom_dict, "isdonor"),
                             hi, "coords", "coords", 0)
        a == cc[1]
        d == cc[2]
    IN  IF Len(a) > 0 /\ Len(d) > 0
        THEN LET angle1 == neighbor_angles(d, a)
                 angle2 == neighbor_angles(a, d)
                 strict == strict_and(
                     _check_angles(angle1, Column(a, "hybridization"), tol),
                     _check_angles(angle2, Column(d, "hybridization"), tol))
             IN  <<a, d, strict>>
        ELSE <<a, d, << >>>>

hbonds_oneway(m1, m2, hi, tol) == hbond_acceptor_donor(m1, m2, hi, tol)

hbonds_unswapped(m1, m2, hi, tol) ==
    LET r1 == hbond_acceptor_donor(m1, m2, hi, tol)
        r2 == hbond_acceptor_donor(m2, m1, hi, tol)
    IN  <<r1[1] \o r2[1], r1[2] \o r2[2], r1[3] \o r2[3]>>

hbonds(m1, m2, hi, tol) ==
    LET r1 == hbond_acceptor_donor(m1, m2, hi, tol)
        r2 == hbond_acceptor_donor(m2, m1, hi, tol)
    IN  <<r1[1] \o r2[2], r1[2] \o r2[1], r1[3] \o r2[3]>>

halogenbond_acceptor_halogen(m1, m2, tol, hi) ==
    LET cc == close_contacts(Select(m1.atom_dict, "isacceptor"),
                             Select(m2.atom_dict, "ishalogen"),
                             hi, "coords", "coords", 0)
        a == cc[1]
        h == cc[2]
    IN  IF Len(a) > 0 /\ Len(h) > 0
        THEN LET angle1 == neighbor_angles(h, a)
                 angle2 == neighbor_angles(a, h)
                 strict == strict_and(
                     _check_angles(angle1, Column(a, "hybridization"), tol),
                     _check_angles(angle2, Column(h, "hybridization"), tol))
             IN  <<a, h, strict>>
        ELSE <<a, h, << >>>>

halogenbonds(m1, m2, hi, tol) ==
    LET r1 == halogenbond_acceptor_halogen(m1, m2, tol, hi)
        r2 == halogenbond_acceptor_halogen(m2, m1, tol, hi)
    IN  <<r1[1] \o r2[2], r1[2] \o r2[1], r1[3] \o r2[3]>>

\* float comparisons of a possibly-NaN angle with a number
gt(a, n) == ~a.nan /\ a.deg > n
lt(a, n) == ~a.nan /\ a.deg < n

\* (angle > 180 - tolerance) | (angle < tolerance)
near_parallel(a, tol) == gt(a, 180 - tol) \/ lt(a, tol)

\* (angle > 90 - tolerance) & (angle < 90 + tolerance)
near_perpendicular_or(a, tol) == gt(a, 90 - tol) \/ lt(a, 90 + tol)

near_perpendicular(a, tol) == gt(a, 90 - tol) /\ lt(a, 90 + tol)

pi_stacking(m1, m2, hi, tol) ==
    LET cc == close_contacts(m1.ring_dict, m2.ring_dict,
                             hi, "centroid", "centroid", 0)
        r1 == cc[1]
        r2 == cc[2]
    IN  IF Len(r1) > 0 /\ Len(r2) > 0
        THEN LET angle1 == [i \in 1 .. Len(r1) |->
                               angle_2v(r1[i].vector, r2[i].vector)]
                 angle2 == [i \in 1 .. Len(r1) |->
                               angle(vadd(r1[i].vector, r1[i].centroid),
                                     r1[i].centroid, r2[i].centroid)]
                 strict_parallel == [i \in 1 .. Len(r1) |->
                     near_parallel(angle1[i], tol) /\ near_parallel(angle2[i], tol)]
                 strict_perpendicular == [i \in 1 .. Len(r1) |->
                     near_perpendicular(angle1[i], tol)
                         /\ near_parallel(angle2[i], tol)]
             IN  <<r1, r2, strict_parallel, strict_perpendicular>>
        ELSE <<r1, r2, << >>, << >>>>

salt_bridge_plus_minus(m1, m2, hi) ==
    close_contacts(Select(m1.atom_dict, "isplus"),
                   Select(m2.atom_dict, "isminus"),
                   hi, "coords", "coords", 0)

salt_bridges(m1, m2, hi) ==
    LET r1 == salt_bridge_plus_minus(m1, m2, hi)
        r2 == salt_bridge_plus_minus(m2, m1, hi)
    IN  <<r1[1] \o r2[2], r1[2] \o r2[1]>>

hydrophobic_contacts(m1, m2, hi) ==
    close_contacts(Select(m1.atom_dict, "ishydrophobe"),
                   Select(m2.atom_dict, "ishydrophobe"),
                   hi, "coords", "coords", 0)

pi_cation(m1, m2, hi, tol) ==
    LET cc == close_contacts(m1.ring_dict, Select(m2.atom_dict, "isplus"),
                             hi, "centroid", "coords", 0)
        r1 == cc[1]
        plus2 == cc[2]
    IN  IF Len(r1) > 0 /\ Len(plus2) > 0
        THEN LET angle1 == [i \in 1 .. Len(r1) |->
                               angle_2v(r1[i].vector,
                                        vsub(plus2[i].coords, r1[i].centroid))]
                 strict == [i \in 1 .. Len(r1) |-> near_parallel(angle1[i], tol)]
             IN  <<r1, plus2, strict>>
        ELSE <<r1, plus2, << >>>>

acceptor_metal(m1, m2, tol, hi) ==
    LET cc == close_contacts(Select(m1.atom_dict, "isacceptor"),
                             Select(m2.atom_dict, "ismetal"),
                             hi, "coords", "coords", 0)
        a == cc[1]
        m == cc[2]
    IN  IF Len(a) > 0 /\ Len(m) > 0
        THEN LET angle1 == neighbor_angles(m, a)
                 strict == _check_angles(angle1, Column(a, "hybridization"), tol)
             IN  <<a, m, strict>>
        ELSE <<a, m, << >>>>

pi_metal(m1, m2, hi, tol) ==
    LET cc == close_contacts(m1.ring_dict, Select(m2.atom_dict, "ismetal"),
                             hi, "centroid", "coords", 0)
        r1 == cc[1]
        m == cc[2]
    IN  IF Len(r1) > 0 /\ Len(m) > 0
        THEN LET angle1 == [i \in 1 .. Len(r1) |->
                               angle_2v(r1[i].vector,
                                        vsub(m[i].coords, r1[i].centroid))]
                 strict == [i \in 1 .. Len(r1) |-> near_parallel(angle1[i], tol)]
             IN  <<r1, m, strict>>
        ELSE <<r1, m, << >>>>

(***************************************************************************)
(* Inputs.  Atoms lie on the x axis: atom i of the first structure at      *)
(* x = i - 1, atom j of the second at x = j + 1; neighbors sit one step    *)
(* from their atom in one of the eight grid directions, or are missing     *)
(* (NaN-padded slot).  An atom kind fixes flags, hybridization and the     *)
(* neighbor directions.                                                    *)
(***************************************************************************)
Kind(hyb, dirs, acc, don, hal, plus, minus, hyd, met) ==
    [hybridization |-> hyb, dirs |-> dirs, isacceptor |-> acc, isdonor |-> don,
     ishalogen |-> hal, isplus |-> plus, isminus |-> minus,
     ishydrophobe |-> hyd, ismetal |-> met]

AtomKinds ==
    { \* sp2 acceptor, one neighbor up-left
      Kind(2, <<Pt(-1, 1), NaNPoint>>, TRUE, FALSE, FALSE, FALSE, TRUE, TRUE, FALSE),
      \* sp3 donor / halogen / cation / metal, one neighbor down-right
      Kind(3, <<Pt(1, -1), NaNPoint>>, FALSE, TRUE, TRUE, TRUE, FALSE, TRUE, TRUE),
      \* sp acceptor and donor, neighbors left and up
      Kind(1, <<Pt(-1, 0), Pt(0, 1)>>, TRUE, TRUE, FALSE, FALSE, FALSE, FALSE, FALSE),
      \* hybridization 0, no neighbors, every role
      Kind(0, <<NaNPoint, NaNPoint>>, TRUE, TRUE, TRUE, TRUE, TRUE, FALSE, TRUE) }

Atom(kind, id, px) ==
    [id |-> id, coords |-> Pt(px, 0),
     neighbors |-> [k \in 1 .. Len(kind.dirs) |-> vadd(Pt(px, 0), kind.dirs[k])],
     hybridization |-> kind.hybridization,
     isacceptor |-> kind.isacceptor, isdonor |-> kind.isdonor,
     ishalogen |-> kind.ishalogen, isplus |-> kind.isplus,
     isminus |-> kind.isminus, ishydrophobe |-> kind.ishydrophobe,
     ismetal |-> kind.ismetal]

RingVectors == {Pt(1, 0), Pt(0, 1), Pt(1, 1), Pt(0, 0)}

Ring(vector, id, px) == [id |-> id, centroid |-> Pt(px, 0), vector |-> vector]

\* the atom arrays, ring arrays and bare coordinate arrays of len rows;
\* shift places the rows of the first structure left of the second's
AtomDicts(len, shift) ==
    {[i \in 1 .. len |-> Atom(ks[i], i, i + shift)] : ks \in [1 .. len -> AtomKinds]}

RingDicts(len, shift) ==
    {[i \in 1 .. len |-> Ring(vs[i], i, i + shift)] : vs \in [1 .. len -> RingVectors]}

\* rows of a direct close_contacts call: any coordinates, coincident included
CoordRows(len) ==
    {[i \in 1 .. len |-> [id |-> i, coords |-> Pt(cs[i], 0)]] :
        cs \in [1 .. len -> Coords]}

\* the lengths <<len1, len2>> of two arrays of at most n rows together
Lengths(n) == {l \in (0 .. n) \X (0 .. n) : l[1] + l[2] <= n}

Molecule(atoms, rings) == [atom_dict |-> atoms, ring_dict |-> rings]

NoMolecule == Molecule(<< >>, << >>)

\* the pairs <<mol1, mol2>> of structures: atoms only, rings only, rings
\* against atoms
AtomMols ==
    UNION {{<<Molecule(a, << >>), Molecule(b, << >>)>> :
               a \in AtomDicts(l[1], -1), b \in AtomDicts(l[2], 1)} :
           l \in Lengths(MaxAtoms)}

RingMols ==
    UNION {{<<Molecule(<< >>, a), Molecule(<< >>, b)>> :
               a \in RingDicts(l[1], -1), b \in RingDicts(l[2], 1)} :
           l \in Lengths(MaxRings)}

RingAtomMols ==
    UNION {{<<Molecule(<< >>, a), Molecule(b, << >>)>> :
               a \in RingDicts(l[1], -1), b \in AtomDicts(l[2], 1)} :
           l \in Lengths(MaxAtoms)}

CoordArrays ==
    UNION {{<<a, b>> : a \in CoordRows(l[1]), b \in CoordRows(l[2])} :
           l \in Lengths(MaxLen)}

\* angle matrices for a direct _check_angles call: the first row is any row
\* of s slots, further rows are uniform (one value in every slot)
AngleValues == {NaN, Deg(0), Deg(90), Deg(150), Deg(180)}
HybridizationCodes == 0 .. 4

AngleInputs ==
    UNION {UNION {
        {[angles |-> [i \in 1 .. n |->
                         IF i = 1 THEN first
                         ELSE [k \in 1 .. s |-> more[i].value]],
          hybridizations |-> [i \in 1 .. n |->
                         IF i = 1 THEN h ELSE more[i].hybridization]] :
            first \in [1 .. s -> AngleValues],
            h \in HybridizationCodes,
            more \in [2 .. n -> [value : {NaN, Deg(180)}, hybridization : {1}]]}
        : s \in 1 .. MaxSlots} : n \in 1 .. MaxPairs}

DetectorsWithTolerance ==
    {"hbond_acceptor_donor", "hbonds", "halogenbond_acceptor_halogen",
     "halogenbonds", "acceptor_metal"}
DetectorsWithoutTolerance ==
    {"salt_bridge_plus_minus", "salt_bridges", "hydrophobic_contacts"}

(***************************************************************************)
(* Init: one pending call.                                                 *)
(***************************************************************************)
InitCloseContacts ==
    /\ fn = "close_contacts"
    /\ \E p \in CoordArrays : x = p[1] /\ y = p[2]
    /\ cutoff \in Cutoffs
    /\ cutoff_low \in CutoffLows
    /\ mol1 = NoMolecule /\ mol2 = NoMolecule
    /\ tolerance = 0 /\ angles = << >> /\ hybridizations = << >>

InitCheckAngles ==
    /\ fn = "_check_angles"
    /\ \E in \in AngleInputs :
          angles = in.angles /\ hybridizations = in.hybridizations
    /\ tolerance \in Tolerances
    /\ mol1 = NoMolecule /\ mol2 = NoMolecule
    /\ x = << >> /\ y = << >> /\ cutoff = 0 /\ cutoff_low = 0

InitAtomDetector ==
    /\ \/ fn \in DetectorsWithTolerance /\ tolerance \in Tolerances
       \/ fn \in DetectorsWithoutTolerance /\ tolerance = 0
    /\ \E p \in AtomMols : mol1 = p[1] /\ mol2 = p[2]
    /\ cutoff \in Cutoffs
    /\ x = << >> /\ y = << >> /\ cutoff_low = 0
    /\ angles = << >> /\ hybridizations = << >>

InitRingDetector ==
    /\ \/ fn = "pi_stacking"
          /\ \E p \in RingMols : mol1 = p[1] /\ mol2 = p[2]
       \/ fn \in {"pi_cation", "pi_metal"}
          /\ \E p \in RingAtomMols : mol1 = p[1] /\ mol2 = p[2]
    /\ cutoff \in RingCutoffs
    /\ tolerance \in RingTolerances
    /\ x = << >> /\ y = << >> /\ cutoff_low = 0
    /\ angles = << >> /\ hybridizations = << >>

Init ==
    /\ pc = "call"
    /\ ret = << >>
    /\ \/ InitCloseContacts
       \/ InitCheckAngles
       \/ InitAtomDetector
       \/ InitRingDetector

(***************************************************************************)
(* Actions: the pending call returns.                                      *)
(***************************************************************************)
Return(name, value) ==
    /\ pc = "call"
    /\ fn = name
    /\ ret' = value
    /\ pc' = "return"
    /\ UNCHANGED <<fn, mol1, mol2, x, y, cutoff, cutoff_low, tolerance,
                   angles, hybridizations>>

CloseContacts ==
    Return("close_contacts",
           close_contacts(x, y, cutoff, "coords", "coords", cutoff_low))

CheckAngles ==
    Return("_check_angles", _check_angles(angles, hybridizations, tolerance))

HbondAcceptorDonor ==
    Return("hbond_acceptor_donor",
           hbond_acceptor_donor(mol1, mol2, cutoff, tolerance))

Hbonds == Return("hbonds", hbonds(mol1, mol2, cutoff, tolerance))

HalogenbondAcceptorHalogen ==
    Return("halogenbond_acceptor_halogen",
           halogenbond_acceptor_halogen(mol1, mol2, tolerance, cutoff))

Halogenbonds ==
    Return("halogenbonds", halogenbonds(mol1, mol2, cutoff, tolerance))

PiStacking == Return("pi_stacking", pi_stacking(mol1, mol2, cutoff, tolerance))

SaltBridgePlusMinus ==
    Return("salt_bridge_plus_minus", salt_bridge_plus_minus(mol1, mol2, cutoff))

SaltBridges == Return("salt_bridges", salt_bridges(mol1, mol2, cutoff))

HydrophobicContacts ==
    Return("hydrophobic_contacts", hydrophobic_contacts(mol1, mol2, cutoff))

PiCation == Return("pi_cation", pi_cation(mol1, mol2, cutoff, tolerance))

AcceptorMetal ==
    Return("acceptor_metal", acceptor_metal(mol1, mol2, tolerance, cutoff))

PiMetal == Return("pi_metal", pi_metal(mol1, mol2, cutoff, tolerance))

Next ==
    \/ CloseContacts
    \/ CheckAngles
    \/ HbondAcceptorDonor
    \/ Hbonds
    \/ HalogenbondAcceptorHalogen
    \/ Halogenbonds
    \/ PiStacking
    \/ SaltBridgePlusMinus
    \/ SaltBridges
    \/ HydrophobicContacts
    \/ PiCation
    \/ AcceptorMetal
    \/ PiMetal

Spec == Init /\ [][Next]_vars

(***************************************************************************)
(* Properties.                                                             *)
(***************************************************************************)
Range(s) == {s[i] : i \in 1 .. Len(s)}

Returned(name) == pc = "return" /\ fn = name

\* the k-th call result has the pair <<u, v>> among its aligned rows
Emits(r, u, v) == \E k \in 1 .. Len(r[1]) : r[1][k] = u /\ r[2][k] = v

\* C1: close_contacts emits the pair (x[i], y[j]) if and only if
\* cutoff_low < distance(x[i], y[j]) <= cutoff; the two returned arrays are
\* aligned and hold nothing but such pairs.
C1_EmittedIffInWindow ==
    Returned("close_contacts") =>
        /\ Len(ret[1]) = Len(ret[2])
        /\ \A i \in 1 .. Len(x) : \A j \in 1 .. Len(y) :
              Emits(ret, x[i], y[j])
                  <=> (/\ cutoff_low < dist(x[i].coords, y[j].coords)
                       /\ dist(x[i].coords, y[j].coords) <= cutoff)
        /\ \A k \in 1 .. Len(ret[1]) :
              ret[1][k] \in Range(x) /\ ret[2][k] \in Range(y)

\* a pair at exactly cutoff was emitted and a pair at exactly cutoff_low
\* (distance 0 under cutoff_low = 0) was left out
C1_Witness ==
    /\ Returned("close_contacts")
    /\ cutoff_low = 0
    /\ \E i \in 1 .. Len(x) : \E j \in 1 .. Len(y) :
          dist(x[i].coords, y[j].coords) = cutoff /\ Emits(ret, x[i], y[j])
    /\ \E i \in 1 .. Len(x) : \E j \in 1 .. Len(y) :
          dist(x[i].coords, y[j].coords) = 0 /\ ~Emits(ret, x[i], y[j])

\* C2: a pair whose measured angles are all not-a-number is never strict,
\* whatever its hybridization code and the tolerance.
C2_AllNaNNeverStrict ==
    Returned("_check_angles") =>
        \A i \in 1 .. Len(angles) :
            (\A k \in 1 .. Len(angles[i]) : angles[i][k].nan) => ~ret[i]

\* a measured (not NaN) angle strictly inside the band of hybridization h
MeasuredInBand(a, h, tol) ==
    /\ ~a.nan
    /\ 2 * a.deg > BASE_ANGLES[h + 1] - 2 * tol
    /\ 2 * a.deg < BASE_ANGLES[h + 1] + 2 * tol

\* C3: a pair is strict if and only if at least one of its measured angles
\* lies strictly between ideal - tolerance and ideal + tolerance.
C3_StrictIffSomeAngleInBand ==
    Returned("_check_angles") =>
        \A i \in 1 .. Len(angles) :
            ret[i] <=> \E k \in 1 .. Len(angles[i]) :
                           MeasuredInBand(angles[i][k], hybridizations[i], tolerance)

\* the two collections a single-sided detector joins
Sides(name, m1, m2) ==
    CASE name \in {"hbond_acceptor_donor", "hbonds"} ->
            <<Select(m1.atom_dict, "isacceptor"), Select(m2.atom_dict, "isdonor")>>
      [] name \in {"halogenbond_acceptor_halogen", "halogenbonds"} ->
            <<Select(m1.atom_dict, "isacceptor"), Select(m2.atom_dict, "ishalogen")>>
      [] name \in {"salt_bridge_plus_minus", "salt_bridges"} ->
            <<Select(m1.atom_dict, "isplus"), Select(m2.atom_dict, "isminus")>>
      [] name = "hydrophobic_contacts" ->
            <<Select(m1.atom_dict, "ishydrophobe"),
              Select(m2.atom_dict, "ishydrophobe")>>
      [] name = "acceptor_metal" ->
            <<Select(m1.atom_dict, "isacceptor"), Select(m2.atom_dict, "ismetal")>>
      [] name = "pi_stacking" -> <<m1.ring_dict, m2.ring_dict>>
      [] name = "pi_cation" -> <<m1.ring_dict, Select(m2.atom_dict, "isplus")>>
      [] name = "pi_metal" -> <<m1.ring_dict, Select(m2.atom_dict, "ismetal")>>

Bidirectional == {"hbonds", "halogenbonds", "salt_bridges"}

\* how many arrays each function returns
Arity(name) ==
    CASE name \in {"close_contacts", "salt_bridge_plus_minus", "salt_bridges",
                   "hydrophobic_contacts"} -> 2
      [] name = "pi_stacking" -> 4
      [] OTHER -> 3

HasEmptySide(name, m1, m2) ==
    Sides(name, m1, m2)[1] = << >> \/ Sides(name, m1, m2)[2] = << >>

AllEmpty(r) == \A k \in 1 .. Len(r) : r[k] = << >>

\* C4: with an empty selected subset on either side, close_contacts returns
\* two empty sequences and every detector returns empty arrays and empty
\* strictness arrays (for a symmetrized detector: in both directions).
C4_EmptyInEmptyOut ==
    /\ Returned("close_contacts") =>
          ((x = << >> \/ y = << >>) => ret = <<<< >>, << >>>>)
    /\ (pc = "return" /\ fn \notin {"close_contacts", "_check_angles"}) =>
          /\ Len(ret) = Arity(fn)
          /\ (/\ HasEmptySide(fn, mol1, mol2)
              /\ fn \in Bidirectional => HasEmptySide(fn, mol2, mol1))
                 => AllEmpty(ret)

\* the first subset is not empty, the second is: acceptors but no donors
C4_Witness ==
    /\ Returned("hbond_acceptor_donor")
    /\ Select(mol1.atom_dict, "isacceptor") # << >>
    /\ mol2.atom_dict # << >>
    /\ Select(mol2.atom_dict, "isdonor") = << >>
    /\ ret = <<<< >>, << >>, << >>>>

\* the single-sided detector under a symmetrized one, and the symmetrized
\* detector itself, on the call's cutoff and tolerance
Single(name, m1, m2) ==
    CASE name = "hbonds" -> hbond_acceptor_donor(m1, m2, cutoff, tolerance)
      [] name = "halogenbonds" ->
            halogenbond_acceptor_halogen(m1, m2, tolerance, cutoff)
      [] name = "salt_bridges" -> salt_bridge_plus_minus(m1, m2, cutoff)

Whole(name, m1, m2) ==
    CASE name = "hbonds" -> hbonds(m1, m2, cutoff, tolerance)
      [] name = "halogenbonds" -> halogenbonds(m1, m2, cutoff, tolerance)
      [] name = "salt_bridges" -> salt_bridges(m1, m2, cutoff)

\* the entries at index i of all arrays of a result, and the same with the
\* two sides exchanged
Row(r, i) == [k \in 1 .. Len(r) |-> r[k][i]]
Swapped(row) ==
    [k \in 1 .. Len(row) |-> IF k = 1 THEN row[2] ELSE IF k = 2 THEN row[1] ELSE row[k]]

\* C5: detector(mol1, mol2) returns arrays of one length; entry i of the
\* first is an atom of mol1, of the second an atom of mol2, and the entries
\* at i (strict included) are one candidate pair of one of the two
\* single-sided calls.
C5_SidesAndAlignment ==
    (pc = "return" /\ fn \in Bidirectional) =>
        LET f == Single(fn, mol1, mol2)
            b == Single(fn, mol2, mol1)
            n == Len(ret[1])
        IN  /\ \A k \in 1 .. Len(ret) : Len(ret[k]) = n
            /\ n = Len(f[1]) + Len(b[1])
            /\ \A i \in 1 .. n :
                  /\ ret[1][i] \in Range(mol1.atom_dict)
                  /\ ret[2][i] \in Range(mol2.atom_dict)
                  /\ \/ \E j \in 1 .. Len(f[1]) : Row(f, j) = Row(ret, i)
                     \/ \E j \in 1 .. Len(b[1]) : Swapped(Row(b, j)) = Row(ret, i)

\* both directions found pairs, strict and crude ones among them
C5_Witness ==
    /\ Returned("hbonds")
    /\ Single(fn, mol1, mol2)[1] # << >>
    /\ Single(fn, mol2, mol1)[1] # << >>
    /\ TRUE \in Range(ret[3])
    /\ FALSE \in Range(ret[3])

\* how often a row occurs among the rows of a result
Count(r, row) == Cardinality({i \in 1 .. Len(r[1]) : Row(r, i) = row})
CountSwapped(r, row) ==
    Cardinality({i \in 1 .. Len(r[1]) : Swapped(Row(r, i)) = row})

\* C6: detector(mol2, mol1) returns as many pairs as detector(mol1, mol2),
\* the same multiset of pairs with the two sides exchanged and the same
\* strict flag per pair.
C6_Symmetry ==
    (pc = "return" /\ fn \in Bidirectional) =>
        LET sw == Whole(fn, mol2, mol1)
        IN  /\ Len(sw[1]) = Len(ret[1])
            /\ \A i \in 1 .. Len(ret[1]) :
                  Count(ret, Row(ret, i)) = CountSwapped(sw, Row(ret, i))

\* the two directions found different numbers of pairs
C6_Witness ==
    /\ Returned("hbonds")
    /\ Single(fn, mol1, mol2)[1] # << >>
    /\ Len(Single(fn, mol1, mol2)[1]) > Len(Single(fn, mol2, mol1)[1])
    /\ Single(fn, mol2, mol1)[1] # << >>

\* a single-sided detector with a strict array, at another tolerance
AtTolerance(name, tol) ==
    CASE name = "hbond_acceptor_donor" -> hbond_acceptor_donor(mol1, mol2, cutoff, tol)
      [] name = "halogenbond_acceptor_halogen" ->
            halogenbond_acceptor_halogen(mol1, mol2, tol, cutoff)
      [] name = "acceptor_metal" -> acceptor_metal(mol1, mol2, tol, cutoff)

\* C7: a pair strict at the call's tolerance is strict at every larger
\* tolerance, in _check_angles and in the strict flags of
\* hbond_acceptor_donor, halogenbond_acceptor_halogen and acceptor_metal.
C7_MonotonicInTolerance ==
    /\ Returned("_check_angles") =>
          \A t2 \in Tolerances : t2 > tolerance =>
              \A i \in 1 .. Len(ret) :
                  ret[i] => _check_angles(angles, hybridizations, t2)[i]
    /\ (pc = "return" /\ fn \in {"hbond_acceptor_donor",
                                 "halogenbond_acceptor_halogen",
                                 "acceptor_metal"}) =>
          \A t2 \in Tolerances : t2 > tolerance =>
              /\ AtTolerance(fn, t2)[1] = ret[1]
              /\ AtTolerance(fn, t2)[2] = ret[2]
              /\ \A i \in 1 .. Len(ret[3]) : ret[3][i] => AtTolerance(fn, t2)[3][i]

\* one pair strict at 30 degrees, another crude at 30 and strict at 60
C7_Witness ==
    /\ Returned("_check_angles")
    /\ tolerance = 30
    /\ \E i \in 1 .. Len(ret) : ret[i]
    /\ \E i \in 1 .. Len(ret) :
          ~ret[i] /\ _check_angles(angles, hybridizations, 60)[i]

\* the directional check at atom v against atom o: some neighbor angle of v
\* passes the classifier
SideCheck(o, v, tol) ==
    _check_angles(<<[k \in 1 .. Len(v.neighbors) |->
                        angle(o.coords, v.coords, v.neighbors[k])]>>,
                  <<v.hybridization>>, tol)[1]

\* C8: in hbond_acceptor_donor and halogenbond_acceptor_halogen a returned
\* pair is strict if and only if the acceptor-side and the donor-side
\* (halogen-side) checks both pass; at tolerance 0 no pair is strict.
C8_StrictIffBothSides ==
    (pc = "return" /\ fn \in {"hbond_acceptor_donor",
                              "halogenbond_acceptor_halogen"}) =>
        /\ Len(ret[3]) = Len(ret[1])
        /\ \A i \in 1 .. Len(ret[1]) :
              /\ ret[3][i] <=> (/\ SideCheck(ret[2][i], ret[1][i], tolerance)
                                /\ SideCheck(ret[1][i], ret[2][i], tolerance))
              /\ tolerance = 0 => ~ret[3][i]

\* one pair passes on the acceptor side only and is crude, another is strict
C8_Witness ==
    /\ Returned("hbond_acceptor_donor")
    /\ \E i \in 1 .. Len(ret[1]) :
          /\ SideCheck(ret[2][i], ret[1][i], tolerance)
          /\ ~SideCheck(ret[1][i], ret[2][i], tolerance)
          /\ ~ret[3][i]
    /\ \E i \in 1 .. Len(ret[1]) : ret[3][i]

\* C9, as claimed: for every tolerance, no ring pair of pi_stacking is both
\* strict_parallel and strict_perpendicular.
C9_NeverBothAnyTolerance ==
    Returned("pi_stacking") =>
        \A i \in 1 .. Len(ret[1]) : ~(ret[3][i] /\ ret[4][i])

\* C9, amended: for every tolerance of at most 45 degrees, no ring pair of
\* pi_stacking is both strict_parallel and strict_perpendicular.
C9_NeverBothUpTo45 ==
    (Returned("pi_stacking") /\ tolerance <= 45) =>
        /\ Len(ret[3]) = Len(ret[1])
        /\ Len(ret[4]) = Len(ret[1])
        /\ \A i \in 1 .. Len(ret[1]) : ~(ret[3][i] /\ ret[4][i])

\* all three outcomes in one result: parallel, perpendicular, neither
C9_Witness ==
    /\ Returned("pi_stacking")
    /\ tolerance <= 45
    /\ \E i \in 1 .. Len(ret[1]) : ret[3][i] /\ ~ret[4][i]
    /\ \E i \in 1 .. Len(ret[1]) : ~ret[3][i] /\ ret[4][i]
    /\ \E i \in 1 .. Len(ret[1]) : ~ret[3][i] /\ ~ret[4][i]

\* C10: close_contacts emits no index pair twice and emits the pairs in
\* row-major order: by increasing row of x, and within a row of x by
\* increasing row of y (a row's id is its index).
C10_RowMajorNoDuplicates ==
    Returned("close_contacts") =>
        \A k \in 1 .. Len(ret[1]) : \A l \in 1 .. Len(ret[1]) :
            k < l => \/ ret[1][k].id < ret[1][l].id
                     \/ /\ ret[1][k].id = ret[1][l].id
                        /\ ret[2][k].id < ret[2][l].id

\* two rows of x with two emitted pairs each
C10_Witness ==
    /\ Returned("close_contacts")
    /\ Len(ret[1]) = 4
    /\ ret[1][1].id = 1 /\ ret[1][2].id = 1
    /\ ret[1][3].id = 2 /\ ret[1][4].id = 2

====
